---- MODULE Spec2Model ----
(***************************************************************************)
(* EgoMirror voice client (src/App.tsx): the session state machine, the    *)
(* playback scheduler and the transcript assembler of the App component,   *)
(* as one state machine.  Every handler of the component is one action;    *)
(* an `await` splits a handler into the part before it and the             *)
(* continuation after it.  The browser and the remote service (microphone  *)
(* permission, the connect promise, transport callbacks, the output        *)
(* device's clock, the end of a playing source) are the environment.       *)
(***************************************************************************)
EXTENDS Integers, Sequences, FiniteSets, TLC

(* ------------------------------ bounds -------------------------------- *)
\* start() calls modelled (each makes one session id)
MaxSessions == 2
\* audio chunks received in the lifecycle specification
MaxChunks == 1
\* audio chunks received in the scheduler specification
SchedChunks == 3
\* audio chunks received in the interruption specification
IntrChunks == 2
\* the output device's clock runs 0..MaxTime
MaxTime == 2
\* longest audio chunk, in clock units
MaxDur == 2
\* longest transcript accumulator, in characters
MaxAcc == 2
\* most Turns in the transcript log
MaxLog == 2
\* capture frames waiting for an unresolved connect promise
MaxQueued == 1
\* audio chunks received in the decode-failure specification
DecChunks == 3

(* ------------------------------ values -------------------------------- *)
Sessions == 1..MaxSessions
\* a null ref
Null == 0
\* setError's messages (App.tsx 173, 183); NoError is the null of line 27
NoError == "null"
ErrFocus == "The mirror lost its focus. Let's try again."
ErrStart == "Could not reach the sanctuary."
\* err.message of a rejected await (line 183): empty, or a text of the browser
ErrMessages == {"", "Permission denied"}

VARIABLES
  sessionState,      \* useState<SessionState>, line 23
  messages,          \* useState<Message[]>, line 26: Seq of [role, text]
  error,             \* useState<string|null>, line 27
  mounted,           \* the component is mounted (its buttons can be clicked)
  outputAudioCtxRef, \* line 40: TRUE once the AudioContext exists
  sourcesRef,        \* line 43: set of [id, start, dur, at]
  nextStartTimeRef,  \* line 44
  streamRef,         \* line 45: Null or the session whose stream it holds
  activeSessionRef,  \* line 46: Null or the session whose handle it holds
  currentInputRef,   \* line 47: Seq of characters
  currentOutputRef,  \* line 48
  nSessions,         \* startSession calls so far
  pc,                \* per call: "idle" | "awaitMic" | "done" | "failed"
  initialText,       \* per call: a greeting text was passed
  conn,              \* per session, the transport: "none" | "connecting" |
                     \*   "open" | "closing" | "failed" | "closed"
  promise,           \* per session, sessionPromise: "none" | "pending" |
                     \*   "resolved" | "rejected"
  processor,         \* per session: onaudioprocess is wired (line 114)
  thens,             \* per session: callbacks queued on sessionPromise by
                     \*   onopen and onaudioprocess, Seq of "greet" | "frame"
  textSent,          \* per session: sendRealtimeInput({text}) calls
  trackLive,         \* per session: its microphone stream has live tracks
  closeCalls,        \* per session: close() calls on its handle
  now,               \* the output device's currentTime
  nChunks,           \* audio chunks received so far
  decoding,          \* onmessage handlers suspended at await decodeAudioData:
                     \*   set of [id, sid, dur, odd, intr, post, live], with
                     \*   post: an interruption had been handled before the
                     \*   chunk arrived; live: the state was 'connected' then
  played,            \* history: the sources started since the scheduler
                     \*   was last flushed, in order of start
  bumped,            \* history: an audio chunk arrived with currentTime past
                     \*   nextStartTimeRef since the last source was started
  flushed,           \* history: an interruption has flushed the scheduler
                     \*   at some time
  last               \* history: the handler that ran last

reactVars == <<sessionState, messages, error, mounted>>
audioVars == <<outputAudioCtxRef, sourcesRef, nextStartTimeRef>>
refVars   == <<streamRef, activeSessionRef>>
textVars  == <<currentInputRef, currentOutputRef>>
callVars  == <<nSessions, pc, initialText>>
netVars   == <<conn, promise, processor, thens, textSent, closeCalls>>
schedVars == <<now, nChunks, decoding, played, bumped, flushed>>
vars == <<reactVars, audioVars, refVars, textVars, callVars, netVars,
          trackLive, schedVars, last>>

(* ------------------------------ helpers ------------------------------- *)
Max(a, b) == IF a >= b THEN a ELSE b

\* String.prototype.trim, on sequences of characters
RECURSIVE TrimStart(_)
TrimStart(s) ==
  IF s # <<>> /\ Head(s) = " " THEN TrimStart(Tail(s)) ELSE s

RECURSIVE TrimEnd(_)
TrimEnd(s) ==
  IF s # <<>> /\ s[Len(s)] = " " THEN TrimEnd(SubSeq(s, 1, Len(s) - 1)) ELSE s

Trim(s) == TrimEnd(TrimStart(s))

\* a LiveServerMessage: the fields of serverContent that onmessage reads
Msg(hasOut, out, hasInp, inp, tc, audio, odd, intr) ==
  [hasOut |-> hasOut, out |-> out, hasInp |-> hasInp, inp |-> inp,
   turnComplete |-> tc, audio |-> audio, odd |-> odd, interrupted |-> intr]

\* a message with no field set
NoMsg == Msg(FALSE, <<>>, FALSE, <<>>, FALSE, 0, FALSE, FALSE)

\* `last` of the initial state; a handler sets the fields that describe it:
\*   held, heldStream, playing, streak: what stopSession found and how many
\*     stopSession calls ran in a row
\*   msg, uAcc, mAcc: the message of onmessage and the accumulators it had
\*     after appending the message's delta
\*   audio, intr: the handler was decoding audio, its message was `interrupted`
\*   sent: onaudioprocess sent its frame
NoLast ==
  [op |-> "init", sid |-> 0, held |-> 0, heldStream |-> 0, playing |-> FALSE,
   streak |-> 0, msg |-> NoMsg, uAcc |-> <<>>, mAcc |-> <<>>,
   intr |-> FALSE, audio |-> FALSE, sent |-> FALSE]

\* the stopSession calls in a row, this one included (2 stands for 2 or more)
Streak == IF last.streak >= 1 THEN 2 ELSE 1

Init ==
  /\ sessionState = "disconnected"
  /\ messages = <<>>
  /\ error = NoError
  /\ mounted = TRUE
  /\ outputAudioCtxRef = FALSE
  /\ sourcesRef = {}
  /\ nextStartTimeRef = 0
  /\ streamRef = Null
  /\ activeSessionRef = Null
  /\ currentInputRef = <<>>
  /\ currentOutputRef = <<>>
  /\ nSessions = 0
  /\ pc = [s \in Sessions |-> "idle"]
  /\ initialText = [s \in Sessions |-> FALSE]
  /\ conn = [s \in Sessions |-> "none"]
  /\ promise = [s \in Sessions |-> "none"]
  /\ processor = [s \in Sessions |-> FALSE]
  /\ thens = [s \in Sessions |-> <<>>]
  /\ textSent = [s \in Sessions |-> 0]
  /\ trackLive = [s \in Sessions |-> FALSE]
  /\ closeCalls = [s \in Sessions |-> 0]
  /\ now = 0
  /\ nChunks = 0
  /\ decoding = {}
  /\ played = <<>>
  /\ bumped = FALSE
  /\ flushed = FALSE
  /\ last = NoLast

(* ----------------------------- stopSession ---------------------------- *)
\* session.close() on the handle held (lines 51-54): an open or opening
\* transport starts closing; on any other it is a no-op
ConnAfterClose(c) ==
  IF activeSessionRef # Null /\ c[activeSessionRef] \in {"connecting", "open"}
  THEN [c EXCEPT ![activeSessionRef] = "closing"]
  ELSE c

\* faulty variant: stopSession that closes the handle and keeps it in the ref
stopSessionKeepsHandle(c) ==
  /\ conn' = ConnAfterClose(c)
  /\ closeCalls' = IF activeSessionRef # Null
                   THEN [closeCalls EXCEPT ![activeSessionRef] = @ + 1]
                   ELSE closeCalls
  /\ activeSessionRef' = activeSessionRef
  /\ trackLive' = IF streamRef # Null
                  THEN [trackLive EXCEPT ![streamRef] = FALSE]
                  ELSE trackLive
  /\ streamRef' = Null
  /\ sourcesRef' = {}
  /\ nextStartTimeRef' = 0
  /\ sessionState' = "disconnected"

\* faulty variant: stopSession that stops the sources and leaves them in the set
stopSessionKeepsSources(c) ==
  /\ conn' = ConnAfterClose(c)
  /\ closeCalls' = IF activeSessionRef # Null
                   THEN [closeCalls EXCEPT ![activeSessionRef] = @ + 1]
                   ELSE closeCalls
  /\ activeSessionRef' = Null
  /\ trackLive' = IF streamRef # Null
                  THEN [trackLive EXCEPT ![streamRef] = FALSE]
                  ELSE trackLive
  /\ streamRef' = Null
  /\ sourcesRef' = sourcesRef
  /\ nextStartTimeRef' = 0
  /\ sessionState' = "disconnected"

\* stopSession, lines 50-65; c is the transports' state when it is called
stopSession(c) ==
  /\ conn' = ConnAfterClose(c)
  /\ closeCalls' = IF activeSessionRef # Null
                   THEN [closeCalls EXCEPT ![activeSessionRef] = @ + 1]
                   ELSE closeCalls
  /\ activeSessionRef' = Null
  /\ trackLive' = IF streamRef # Null
                  THEN [trackLive EXCEPT ![streamRef] = FALSE]
                  ELSE trackLive
  /\ streamRef' = Null
  /\ sourcesRef' = {}
  /\ nextStartTimeRef' = 0
  /\ sessionState' = "disconnected"

\* what a handler that calls stopSession leaves in `last`
StopLast(op, s) ==
  [NoLast EXCEPT !.op = op, !.sid = s, !.held = activeSessionRef,
                 !.heldStream = streamRef, !.playing = (sourcesRef # {}),
                 !.streak = Streak]

\* the history of the scheduler when it is flushed
FlushHistory == played' = <<>> /\ bumped' = FALSE

\* what a handler that only calls stopSession leaves of the scheduler's
\* variables
StopSched == FlushHistory /\ UNCHANGED <<now, nChunks, decoding, flushed>>

(* ----------------------------- startSession --------------------------- *)
\* The buttons that call startSession (lines 240-258) are rendered, or
\* enabled, only while sessionState is 'disconnected'.
\* faulty variant: the round button enabled while 'connecting'
StartAllowedConnecting == mounted /\ sessionState # "connected"

StartAllowed == mounted /\ sessionState = "disconnected"

\* faulty variant: a start that empties the transcript log
StartClearsLog(greet, limit) ==
  /\ StartAllowed
  /\ nSessions < limit
  /\ nSessions' = nSessions + 1
  /\ sessionState' = "connecting"
  /\ error' = NoError
  /\ messages' = <<>>
  /\ outputAudioCtxRef' = TRUE
  /\ pc' = [pc EXCEPT ![nSessions + 1] = "awaitMic"]
  /\ initialText' = [initialText EXCEPT ![nSessions + 1] = greet]
  /\ last' = [NoLast EXCEPT !.op = "start", !.sid = nSessions + 1]
  /\ UNCHANGED <<mounted, sourcesRef, nextStartTimeRef, refVars, textVars,
                 netVars, trackLive, schedVars>>

\* startSession up to its awaits (lines 67-81); resume() and getUserMedia
\* are awaited back to back with no statement between them: one await here
\* (limit: the start() calls the specification at hand allows)
Start(greet, limit) ==
  /\ StartAllowed
  /\ nSessions < limit
  /\ nSessions' = nSessions + 1
  /\ sessionState' = "connecting"
  /\ error' = NoError
  /\ outputAudioCtxRef' = TRUE
  /\ pc' = [pc EXCEPT ![nSessions + 1] = "awaitMic"]
  /\ initialText' = [initialText EXCEPT ![nSessions + 1] = greet]
  /\ last' = [NoLast EXCEPT !.op = "start", !.sid = nSessions + 1]
  /\ UNCHANGED <<messages, mounted, sourcesRef, nextStartTimeRef, refVars,
                 textVars, netVars, trackLive, schedVars>>

\* getUserMedia resolved: lines 82-180, ending with ai.live.connect (not
\* awaited) and sessionPromise.then(s => activeSessionRef.current = s)
MicGranted(s) ==
  /\ pc[s] = "awaitMic"
  /\ pc' = [pc EXCEPT ![s] = "done"]
  /\ streamRef' = s
  /\ trackLive' = [trackLive EXCEPT ![s] = TRUE]
  /\ conn' = [conn EXCEPT ![s] = "connecting"]
  /\ promise' = [promise EXCEPT ![s] = "pending"]
  /\ last' = [NoLast EXCEPT !.op = "micGranted", !.sid = s]
  /\ UNCHANGED <<reactVars, audioVars, activeSessionRef, textVars, nSessions,
                 initialText, processor, thens, textSent, closeCalls,
                 schedVars>>

\* faulty variant: the catch reports the error and leaves the state as it is
MicDeniedKeepsState(s, msg) ==
  /\ pc[s] = "awaitMic"
  /\ pc' = [pc EXCEPT ![s] = "failed"]
  /\ error' = IF msg # "" THEN msg ELSE ErrStart
  /\ last' = [NoLast EXCEPT !.op = "micDenied", !.sid = s]
  /\ UNCHANGED <<sessionState, messages, mounted, audioVars, refVars, textVars,
                 nSessions, initialText, netVars, trackLive, schedVars>>

\* an await of lines 78-81 rejected with an error whose message is msg: the
\* catch, lines 182-185
MicDenied(s, msg) ==
  /\ pc[s] = "awaitMic"
  /\ pc' = [pc EXCEPT ![s] = "failed"]
  /\ error' = IF msg # "" THEN msg ELSE ErrStart
  /\ sessionState' = "disconnected"
  /\ last' = [NoLast EXCEPT !.op = "micDenied", !.sid = s]
  /\ UNCHANGED <<messages, mounted, audioVars, refVars, textVars, nSessions,
                 initialText, netVars, trackLive, schedVars>>

(* ------------------------- transport callbacks ------------------------ *)
\* faulty variant: every queued greeting callback sends its text twice
GreetsInTwice(q) == 2 * Cardinality({i \in 1..Len(q) : q[i] = "greet"})

\* the then-callbacks of sessionPromise registered by onopen (line 125) and
\* by onaudioprocess (lines 117-119), run with the handle of session s while
\* activeSessionRef is `active`: the greeting texts they send
GreetsIn(q) == Cardinality({i \in 1..Len(q) : q[i] = "greet"})

\* onopen, lines 108-127
OnOpen(s) ==
  /\ conn[s] = "connecting"
  /\ conn' = [conn EXCEPT ![s] = "open"]
  /\ sessionState' = "connected"
  /\ processor' = [processor EXCEPT ![s] = TRUE]
  /\ IF initialText[s]
     THEN IF promise[s] = "resolved"
          THEN /\ textSent' = [textSent EXCEPT ![s] = @ + 1]
               /\ thens' = thens
          ELSE /\ thens' = [thens EXCEPT ![s] = Append(@, "greet")]
               /\ textSent' = textSent
     ELSE UNCHANGED <<thens, textSent>>
  /\ last' = [NoLast EXCEPT !.op = "onopen", !.sid = s]
  /\ UNCHANGED <<messages, error, mounted, audioVars, refVars, textVars,
                 callVars, promise, closeCalls, trackLive, schedVars>>

\* sessionPromise resolves with the handle of the opened transport: the
\* callback of line 180 runs, then the callbacks queued since
Resolve(s) ==
  /\ promise[s] = "pending"
  /\ conn[s] = "open"
  /\ promise' = [promise EXCEPT ![s] = "resolved"]
  /\ activeSessionRef' = s
  /\ textSent' = [textSent EXCEPT ![s] = @ + GreetsIn(thens[s])]
  /\ thens' = [thens EXCEPT ![s] = <<>>]
  /\ last' = [NoLast EXCEPT !.op = "resolve", !.sid = s]
  /\ UNCHANGED <<reactVars, audioVars, streamRef, textVars, callVars, conn,
                 processor, closeCalls, trackLive, schedVars>>

\* sessionPromise rejects (the transport failed to open): nothing awaits it
\* and it has no catch, so no statement of the component runs
Reject(s) ==
  /\ promise[s] = "pending"
  /\ conn[s] = "connecting"
  /\ promise' = [promise EXCEPT ![s] = "rejected"]
  /\ conn' = [conn EXCEPT ![s] = "closed"]
  /\ last' = [NoLast EXCEPT !.op = "reject", !.sid = s]
  /\ UNCHANGED <<reactVars, audioVars, refVars, textVars, callVars, processor,
                 thens, textSent, closeCalls, trackLive, schedVars>>

\* faulty variant: onerror that stops the session and reports nothing
OnErrorSilent(s) ==
  /\ conn[s] \in {"connecting", "open", "closing"}
  /\ stopSession([conn EXCEPT ![s] = "failed"])
  /\ last' = StopLast("onerror", s)
  /\ StopSched
  /\ UNCHANGED <<messages, error, mounted, outputAudioCtxRef, textVars,
                 callVars, promise, processor, thens, textSent>>

\* onerror, lines 171-175
OnError(s) ==
  /\ conn[s] \in {"connecting", "open", "closing"}
  /\ error' = ErrFocus
  /\ stopSession([conn EXCEPT ![s] = "failed"])
  /\ last' = StopLast("onerror", s)
  /\ StopSched
  /\ UNCHANGED <<messages, mounted, outputAudioCtxRef, textVars, callVars,
                 promise, processor, thens, textSent>>

\* onclose, line 176
OnClose(s) ==
  /\ conn[s] \in {"open", "closing", "failed"}
  /\ stopSession([conn EXCEPT ![s] = "closed"])
  /\ last' = StopLast("onclose", s)
  /\ StopSched
  /\ UNCHANGED <<messages, error, mounted, outputAudioCtxRef, textVars,
                 callVars, promise, processor, thens, textSent>>

(* ------------------------------ the user ------------------------------ *)
\* the round button while 'connected' (line 257) calls stopSession
StopButton ==
  /\ mounted
  /\ sessionState = "connected"
  /\ stopSession(conn)
  /\ last' = StopLast("stop", 0)
  /\ StopSched
  /\ UNCHANGED <<messages, error, mounted, outputAudioCtxRef, textVars,
                 callVars, promise, processor, thens, textSent>>

\* the effect's cleanup (line 193) calls stopSession when the component
\* unmounts, whatever the state
Unmount ==
  /\ mounted
  /\ mounted' = FALSE
  /\ stopSession(conn)
  /\ last' = StopLast("unmount", 0)
  /\ StopSched
  /\ UNCHANGED <<messages, error, outputAudioCtxRef, textVars, callVars,
                 promise, processor, thens, textSent>>

\* PURGE LOGS, line 366
ClearAll ==
  /\ mounted
  /\ messages' = <<>>
  /\ last' = [NoLast EXCEPT !.op = "clear"]
  /\ UNCHANGED <<sessionState, error, mounted, audioVars, refVars, textVars,
                 callVars, netVars, trackLive, schedVars>>

(* ------------------------------ onmessage ----------------------------- *)
\* lines 130-134: the accumulators after the transcription of message m
OutputAfter(m) ==
  IF m.hasOut THEN currentOutputRef \o m.out ELSE currentOutputRef

InputAfter(m) ==
  IF m.hasOut THEN currentInputRef
  ELSE IF m.hasInp THEN currentInputRef \o m.inp ELSE currentInputRef

\* faulty variant: the model's Turn spread before the user's
NewTurnsModelFirst(uText, mText) ==
  (IF mText # <<>> THEN <<[role |-> "model", text |-> mText]>> ELSE <<>>)
  \o (IF uText # <<>> THEN <<[role |-> "user", text |-> uText]>> ELSE <<>>)

\* lines 139-145: the Turns appended for the trimmed texts uText and mText
\* (an empty string is falsy)
NewTurns(uText, mText) ==
  (IF uText # <<>> THEN <<[role |-> "user", text |-> uText]>> ELSE <<>>)
  \o (IF mText # <<>> THEN <<[role |-> "model", text |-> mText]>> ELSE <<>>)

\* line 151-152: the message carries audio and the output context exists
HasAudio(m) == m.audio > 0 /\ outputAudioCtxRef

\* line 154
ClockAtArrival == Max(nextStartTimeRef, now)

\* onmessage, lines 128-170, up to `await decodeAudioData` (line 155) when
\* the message carries audio, and to its end when it does not
\* (chunks: the audio chunks the specification at hand allows)
OnMessage(s, m, chunks) ==
  /\ conn[s] = "open"
  /\ Len(OutputAfter(m)) <= MaxAcc
  /\ Len(InputAfter(m)) <= MaxAcc
  /\ IF m.turnComplete
     THEN /\ messages' = messages \o NewTurns(Trim(InputAfter(m)),
                                              Trim(OutputAfter(m)))
          /\ Len(messages') <= MaxLog
          /\ currentInputRef' = <<>>
          /\ currentOutputRef' = <<>>
     ELSE /\ messages' = messages
          /\ currentInputRef' = InputAfter(m)
          /\ currentOutputRef' = OutputAfter(m)
  /\ IF HasAudio(m)
     THEN /\ nChunks < chunks
          /\ nChunks' = nChunks + 1
          /\ nextStartTimeRef' = ClockAtArrival
          /\ bumped' = (bumped \/ now > nextStartTimeRef)
          /\ decoding' = decoding \cup
               {[id |-> nChunks + 1, sid |-> s, dur |-> m.audio,
                 odd |-> m.odd, intr |-> m.interrupted, post |-> flushed,
                 live |-> (sessionState = "connected")]}
          /\ UNCHANGED <<sourcesRef, flushed, played>>
     ELSE /\ IF m.interrupted
             THEN /\ sourcesRef' = {}
                  /\ nextStartTimeRef' = 0
                  /\ flushed' = TRUE
                  /\ FlushHistory
             ELSE UNCHANGED <<sourcesRef, nextStartTimeRef, flushed, played,
                              bumped>>
          /\ UNCHANGED <<nChunks, decoding>>
  /\ last' = [NoLast EXCEPT !.op = "onmessage", !.sid = s, !.msg = m,
                            !.uAcc = InputAfter(m), !.mAcc = OutputAfter(m),
                            !.audio = HasAudio(m),
                            !.intr = m.interrupted]
  /\ UNCHANGED <<sessionState, error, mounted, outputAudioCtxRef, refVars,
                 callVars, netVars, trackLive, now>>

\* decodeAudioData of ./utils/audio (line 155): it rejects a payload with an
\* odd number of bytes
DecodeError(d) == d.odd

\* decodeAudioData is asynchronous: the decodes in flight complete after any
\* delay and in any order
Decoded == decoding

\* onmessage after the await of line 155 resolved: lines 156-169
DecodeDone(d) ==
  /\ d \in Decoded
  /\ ~DecodeError(d)
  /\ decoding' = decoding \ {d}
  /\ IF d.intr
     THEN /\ sourcesRef' = {}
          /\ nextStartTimeRef' = 0
          /\ flushed' = TRUE
          /\ FlushHistory
     ELSE /\ sourcesRef' = sourcesRef \cup
               {[id |-> d.id, start |-> nextStartTimeRef, dur |-> d.dur,
                 at |-> now]}
          /\ nextStartTimeRef' = nextStartTimeRef + d.dur
          /\ flushed' = flushed
          /\ played' = Append(played,
                              [id |-> d.id, sid |-> d.sid,
                               start |-> nextStartTimeRef, dur |-> d.dur,
                               at |-> now, late |-> bumped, post |-> d.post])
          /\ bumped' = FALSE
  /\ last' = [NoLast EXCEPT !.op = "decoded", !.sid = d.sid, !.audio = TRUE,
                            !.intr = d.intr]
  /\ UNCHANGED <<reactVars, outputAudioCtxRef, refVars, textVars, callVars,
                 netVars, trackLive, now, nChunks>>

\* faulty variant: a failed decode that tears the session down
DecodeFailStops(d) ==
  /\ d \in Decoded
  /\ DecodeError(d)
  /\ decoding' = decoding \ {d}
  /\ sourcesRef' = {}
  /\ nextStartTimeRef' = 0
  /\ sessionState' = "disconnected"
  /\ last' = [NoLast EXCEPT !.op = "decodeFailed", !.sid = d.sid,
                            !.audio = TRUE, !.intr = d.intr]
  /\ UNCHANGED <<messages, error, mounted, outputAudioCtxRef, refVars,
                 textVars, callVars, netVars, trackLive, now, nChunks, played,
                 bumped, flushed>>

\* the await of line 155 rejected: the handler ends there (no catch)
DecodeFail(d) ==
  /\ d \in Decoded
  /\ DecodeError(d)
  /\ decoding' = decoding \ {d}
  /\ last' = [NoLast EXCEPT !.op = "decodeFailed", !.sid = d.sid,
                            !.audio = TRUE, !.intr = d.intr]
  /\ UNCHANGED <<reactVars, audioVars, refVars, textVars, callVars, netVars,
                 trackLive, now, nChunks, played, bumped, flushed>>

\* source.onended, line 159: the source played to its end
SourceEnded(src) ==
  /\ src \in sourcesRef
  /\ now >= Max(src.start, src.at) + src.dur
  /\ sourcesRef' = sourcesRef \ {src}
  /\ last' = [NoLast EXCEPT !.op = "ended"]
  /\ UNCHANGED <<reactVars, outputAudioCtxRef, nextStartTimeRef, refVars,
                 textVars, callVars, netVars, trackLive, schedVars>>

\* the output device's clock advances
Tick ==
  /\ now < MaxTime
  /\ now' = now + 1
  /\ last' = [NoLast EXCEPT !.op = "tick"]
  /\ UNCHANGED <<reactVars, audioVars, refVars, textVars, callVars, netVars,
                 trackLive, nChunks, decoding, played, bumped, flushed>>

\* processor.onaudioprocess, lines 114-120: the frame is sent by a callback
\* on sessionPromise, which runs at once if the promise is resolved
FramesIn(q) == Cardinality({i \in 1..Len(q) : q[i] = "frame"})

OnAudioProcess(s) ==
  /\ processor[s]
  /\ promise[s] \in {"pending", "resolved"}
  /\ IF promise[s] = "pending"
     THEN /\ FramesIn(thens[s]) < MaxQueued
          /\ thens' = [thens EXCEPT ![s] = Append(@, "frame")]
          /\ last' = [NoLast EXCEPT !.op = "frame", !.sid = s]
     ELSE /\ thens' = thens
          /\ last' = [NoLast EXCEPT !.op = "frame", !.sid = s,
                                    !.sent = (activeSessionRef # Null)]
  /\ UNCHANGED <<reactVars, audioVars, refVars, textVars, callVars, conn,
                 promise, processor, textSent, closeCalls, trackLive,
                 schedVars>>

(* --------------------------- specifications --------------------------- *)
\* an audio chunk of duration d, and an interruption
AudioMsg(d) == Msg(FALSE, <<>>, FALSE, <<>>, FALSE, d, FALSE, FALSE)
IntrMsg == Msg(FALSE, <<>>, FALSE, <<>>, FALSE, 0, FALSE, TRUE)

\* The session lifecycle: start, stop, unmount and every transport callback,
\* with audio arriving and being decoded.
LifeMsgs == {AudioMsg(1)}

Next ==
  \/ Start(FALSE, MaxSessions)
  \/ \E s \in Sessions : MicGranted(s)
  \/ \E s \in Sessions, msg \in ErrMessages : MicDenied(s, msg)
  \/ \E s \in Sessions : OnOpen(s)
  \/ \E s \in Sessions : Resolve(s)
  \/ \E s \in Sessions : Reject(s)
  \/ \E s \in Sessions : OnError(s)
  \/ \E s \in Sessions : OnClose(s)
  \/ StopButton
  \/ Unmount
  \/ \E s \in Sessions, m \in LifeMsgs : OnMessage(s, m, MaxChunks)
  \/ \E d \in Decoded : DecodeDone(d)

Spec == Init /\ [][Next]_vars

\* The playback scheduler: one session, opened and resolved, that stays
\* open; audio chunks of every duration arrive while the device clock runs,
\* the decodes complete in any order and the sources play to their end.
Streaming == promise[1] = "resolved"

SchedMsgs == {AudioMsg(d) : d \in 1..MaxDur}

SchedNext ==
  \/ Start(FALSE, 1)
  \/ MicGranted(1)
  \/ OnOpen(1)
  \/ Resolve(1)
  \/ Streaming /\ \E m \in SchedMsgs : OnMessage(1, m, SchedChunks)
  \/ \E d \in Decoded : DecodeDone(d)
  \/ \E src \in sourcesRef : SourceEnded(src)
  \/ Streaming /\ Tick

SchedSpec == Init /\ [][SchedNext]_vars

\* The scheduler under interruption: as above, with `interrupted` events,
\* alone or on an event that also carries audio.
IntrMsgs ==
  {AudioMsg(1), IntrMsg, Msg(FALSE, <<>>, FALSE, <<>>, FALSE, 1, FALSE, TRUE)}

IntrNext ==
  \/ Start(FALSE, 1)
  \/ MicGranted(1)
  \/ OnOpen(1)
  \/ Resolve(1)
  \/ Streaming /\ \E m \in IntrMsgs : OnMessage(1, m, IntrChunks)
  \/ \E d \in Decoded : DecodeDone(d)
  \/ \E src \in sourcesRef : SourceEnded(src)
  \/ Streaming /\ Tick

IntrSpec == Init /\ [][IntrNext]_vars

\* The transcript assembler: one open session receiving transcript deltas
\* and turn boundaries in every combination, and the history panel's purge.
Deltas == {<<"a">>, <<" ">>}

\* a delta that is present, or none
MaybeDelta == {<<TRUE, x>> : x \in Deltas} \cup {<<FALSE, <<>>>>}

AsmMsgs ==
  {Msg(o[1], o[2], i[1], i[2], tc, 0, FALSE, FALSE) :
     o \in MaybeDelta, i \in MaybeDelta, tc \in BOOLEAN}

AsmNext ==
  \/ Start(FALSE, 1)
  \/ MicGranted(1)
  \/ OnOpen(1)
  \/ Resolve(1)
  \/ Streaming /\ \E m \in AsmMsgs : OnMessage(1, m, 0)
  \/ Streaming /\ ClearAll

AsmSpec == Init /\ [][AsmNext]_vars

(* ----------------------------- properties ------------------------------ *)
EndOf(e) == e.start + e.dur

\* What the scheduler does keep: between two flushes, every source is started
\* at or after the end of the source started just before it, and exactly at
\* that end unless an audio chunk arrived in between when the device time had
\* passed nextStartTimeRef.
StartedBackToBack ==
  \A j \in 2..Len(played) :
    /\ played[j].start >= EndOf(played[j - 1])
    /\ ~played[j].late => played[j].start = EndOf(played[j - 1])

\* C1: with no interruption, the k-th chunk received starts exactly at the
\* end of the (k-1)-th chunk received, whatever the order in which the
\* decodes complete and however the device time advances meanwhile.
C1_ArrivalOrder ==
  ~flushed =>
    \A i, j \in 1..Len(played) :
      (played[i].sid = played[j].sid /\ played[j].id = played[i].id + 1) =>
         played[j].start = EndOf(played[i])

\* C2: when the handler of an event carrying `interrupted` has
\* finished, the active-set is empty and nextStartTimeRef is 0; and every
\* source of a chunk received after an interruption is started at a time at
\* or after the device time at which it is started.
C2_Interruption ==
  /\ ( /\ last.intr
       /\ \/ last.op = "decoded"
          \/ last.op = "onmessage" /\ ~last.audio )
     => sourcesRef = {} /\ nextStartTimeRef = 0
  /\ \A j \in 1..Len(played) :
       played[j].post => played[j].start >= played[j].at

\* what stopSession is to leave behind
FullStopped ==
  /\ sessionState = "disconnected"
  /\ activeSessionRef = Null
  /\ streamRef = Null
  /\ sourcesRef = {}
  /\ nextStartTimeRef = 0

\* the handle and the stream held when the last handler called stopSession
\* have been closed and stopped
HeldReleased ==
  /\ last.held # Null =>
       closeCalls[last.held] >= 1 /\ conn[last.held] \notin {"connecting", "open"}
  /\ last.heldStream # Null => ~trackLive[last.heldStream]

\* C3: a stop() that follows a stop() leaves the state `disconnected` and
\* changes nothing the first one left, and close() is called at most once on
\* any session's handle.
C3_StopTwice ==
  /\ [](\A s \in Sessions : closeCalls[s] <= 1)
  /\ [][last'.streak >= 1 => sessionState' = "disconnected"]_vars
  /\ [][(last'.streak = 2 /\ last'.op # "onerror") =>
          /\ sessionState = "disconnected"
          /\ UNCHANGED <<sessionState, messages, error, audioVars, refVars,
                         textVars, callVars, trackLive, closeCalls>>]_vars

\* a stop() (no error was reported), then at once the transport's `closed`
\* for a session whose handle has been closed
C3_Witness ==
  /\ error = NoError
  /\ last.op = "onclose"
  /\ last.streak = 2
  /\ closeCalls[last.sid] = 1

\* C4: at most one transport session is open or being opened and not closed.
C4_OneSession ==
  Cardinality({s \in Sessions : conn[s] \in {"connecting", "open"}}) <= 1

\* C5: a start() is accepted only in `disconnected` and moves the state to
\* `connecting`; a microphone or a transport session belongs to an accepted
\* start() only.
C5_StartGate ==
  /\ [][nSessions' # nSessions =>
          /\ sessionState = "disconnected"
          /\ sessionState' = "connecting"
          /\ nSessions' = nSessions + 1
          /\ pc'[nSessions'] = "awaitMic"]_vars
  /\ [](\A s \in Sessions :
          (conn[s] # "none" \/ trackLive[s] \/ pc[s] # "idle") => s <= nSessions)

\* a second start() accepted after the first session has come and gone
C5_Witness ==
  /\ last.op = "start"
  /\ last.sid = 2
  /\ sessionState = "connecting"
  /\ conn[1] = "closed"

\* C6: right after stop() (the button, the unmount) or the transport's
\* `closed`, from any state: the state is `disconnected`, no handle and no
\* stream are held (the ones that were held are closed and stopped), the
\* active-set is empty and nextStartTimeRef is 0.
C6_FullStop ==
  last.op \in {"stop", "unmount", "onclose"} => FullStopped /\ HeldReleased

\* a stop from `connected` with a handle, a stream and a started source
C6_Witness ==
  /\ last.op = "stop"
  /\ last.held # Null
  /\ last.heldStream # Null
  /\ last.playing

\* C7: right after the transport's `error`: the error slot holds the message
\* and a full stop was performed; and a transport is opened only by the
\* continuation of a start() call, never by the error handler.
C7_ErrorFatal ==
  /\ [](last.op = "onerror" =>
          error = ErrFocus /\ FullStopped /\ HeldReleased)
  /\ [][last'.op = "onerror" => UNCHANGED <<callVars, promise>>]_vars
  /\ [][\A s \in Sessions :
          (conn[s] = "none" /\ conn'[s] # "none") =>
             pc[s] = "awaitMic" /\ last'.op = "micGranted"]_vars

\* an error of the session whose handle and stream are held
C7_Witness ==
  /\ last.op = "onerror"
  /\ last.held = last.sid
  /\ last.heldStream = last.sid

\* C8: when the connect promise rejects, the error slot holds a message and
\* the state is `disconnected`.
C8_ConnectError ==
  last.op = "reject" => error # NoError /\ sessionState = "disconnected"

\* C9: when microphone access is denied, the error slot holds the message
\* and the state is `disconnected`; that start() opens no transport and
\* holds no microphone stream, then or later.
C9_PermissionError ==
  /\ last.op = "micDenied" =>
       /\ error \in {ErrStart} \cup (ErrMessages \ {""})
       /\ sessionState = "disconnected"
  /\ \A s \in Sessions :
       pc[s] = "failed" =>
         conn[s] = "none" /\ promise[s] = "none" /\ ~trackLive[s] /\ streamRef # s

\* the microphone denied to a second start(), after a first session
C9_Witness ==
  /\ last.op = "micDenied"
  /\ last.sid = 2
  /\ conn[1] # "none"

\* t is s without its leading and trailing spaces
AllSpaces(s) == \A i \in 1..Len(s) : s[i] = " "

IsTrimOf(t, s) ==
  /\ t # <<>> => t[1] # " " /\ t[Len(t)] # " "
  /\ \E i \in 0..Len(s) : \E j \in i..Len(s) :
       /\ t = SubSeq(s, i + 1, j)
       /\ AllSpaces(SubSeq(s, 1, i))
       /\ AllSpaces(SubSeq(s, j + 1, Len(s)))

TrimsOf(s) ==
  {t \in {SubSeq(s, i, j) : i \in 1..(Len(s) + 1), j \in 0..Len(s)} :
     IsTrimOf(t, s)}

\* the Turn of a speaker for a trimmed text, none for the empty text
TurnOf(role, t) == IF t = <<>> THEN <<>> ELSE <<[role |-> role, text |-> t]>>

\* C10: an event grows each accumulator only by its delta, appended at the
\* end; on turnComplete the log grows by the Turn of the user's trimmed
\* accumulator, then that of the model's, each only if not empty, and both
\* accumulators are empty afterwards; without turnComplete the log is as
\* it was.
C10_TurnBoundary ==
  [][last'.op = "onmessage" =>
       /\ last'.uAcc \in {currentInputRef, currentInputRef \o last'.msg.inp}
       /\ last'.mAcc \in {currentOutputRef, currentOutputRef \o last'.msg.out}
       /\ IF last'.msg.turnComplete
          THEN /\ \E u \in TrimsOf(last'.uAcc), v \in TrimsOf(last'.mAcc) :
                    messages' = messages \o TurnOf("user", u)
                                         \o TurnOf("model", v)
               /\ currentInputRef' = <<>>
               /\ currentOutputRef' = <<>>
          ELSE /\ messages' = messages
               /\ currentInputRef' = last'.uAcc
               /\ currentOutputRef' = last'.mAcc]_vars

\* a turn boundary with " a" from the user and "a " from the model: the
\* user's Turn "a", then the model's Turn "a"
C10_Witness ==
  /\ last.op = "onmessage" /\ last.msg.turnComplete
  /\ last.uAcc = <<" ", "a">>
  /\ last.mAcc = <<"a", " ">>
  /\ messages = <<[role |-> "user", text |-> <<"a">>],
                  [role |-> "model", text |-> <<"a">>]>>
  /\ currentInputRef = <<>> /\ currentOutputRef = <<>>

\* the delta of a speaker carried by message m, empty when it carries none
DeltaOut(m) == IF m.hasOut THEN m.out ELSE <<>>
DeltaInp(m) == IF m.hasInp THEN m.inp ELSE <<>>

\* C11: an event appends each transcript delta it carries to the accumulator
\* of its speaker, also when it carries the delta of both speakers.
C11_EveryDelta ==
  [][last'.op = "onmessage" =>
       /\ last'.mAcc = currentOutputRef \o DeltaOut(last'.msg)
       /\ last'.uAcc = currentInputRef \o DeltaInp(last'.msg)]_vars

\* The capture pipeline and the greeting: sessions started with or without a
\* greeting text, stopped, closed and failed, while the script processors
\* wired by onopen keep delivering frames.
CapNext ==
  \/ \E g \in BOOLEAN : Start(g, MaxSessions)
  \/ \E s \in Sessions : MicGranted(s)
  \/ \E s \in Sessions : OnOpen(s)
  \/ \E s \in Sessions : Resolve(s)
  \/ \E s \in Sessions : OnError(s)
  \/ \E s \in Sessions : OnClose(s)
  \/ StopButton
  \/ \E s \in Sessions : OnAudioProcess(s)

CapSpec == Init /\ [][CapNext]_vars

\* C12: a frame callback of a session sends its frame only while the
\* transport of that session is open: never once it is closing, failed or
\* closed.
C12_CaptureStops ==
  (last.op = "frame" /\ last.sent) => conn[last.sid] = "open"

\* C13: a decode that was in flight when the session was stopped (its chunk
\* arrived in `connected`, it completes in `disconnected`) starts no source
\* and does not move the clock: the active-set stays empty and
\* nextStartTimeRef stays 0.
C13_DecodeCancelled ==
  [][\A d \in decoding :
       (d.live /\ sessionState = "disconnected" /\ d \notin decoding') =>
          sourcesRef' = {} /\ nextStartTimeRef' = 0]_vars

\* Decode failure: one session that stays open and receives audio chunks,
\* some of them with a payload that decodeAudioData rejects.
OddAudioMsg == Msg(FALSE, <<>>, FALSE, <<>>, FALSE, 1, TRUE, FALSE)

DecMsgs == {AudioMsg(1), OddAudioMsg}

DecNext ==
  \/ Start(FALSE, 1)
  \/ MicGranted(1)
  \/ OnOpen(1)
  \/ Resolve(1)
  \/ Streaming /\ \E m \in DecMsgs : OnMessage(1, m, DecChunks)
  \/ \E d \in Decoded : DecodeDone(d)
  \/ \E d \in Decoded : DecodeFail(d)

DecSpec == Init /\ [][DecNext]_vars

\* C14: a decode that fails leaves the active-set, the state, the handle, the
\* stream and the transport as they were; and the decode of a well-formed
\* chunk that completes, before or after a failure, starts its source.
C14_DecodeFailure ==
  /\ [][last'.op = "decodeFailed" =>
          /\ sessionState = "connected"
          /\ UNCHANGED <<sessionState, sourcesRef, activeSessionRef, streamRef,
                         conn, trackLive, error, messages>>]_vars
  /\ [][\A d \in decoding :
          (~d.odd /\ d \notin decoding') =>
             \E src \in sourcesRef' : src.id = d.id]_vars

\* chunks 1 and 3 are playing, chunk 2 was dropped by a failed decode
C14_Witness ==
  /\ last.op = "decoded"
  /\ nChunks = 3
  /\ decoding = {}
  /\ {src.id : src \in sourcesRef} = {1, 3}
  /\ sessionState = "connected"
  /\ activeSessionRef = 1

\* The transcript log over the life of sessions: sessions are started,
\* stopped, closed and failed while turns complete, interruptions arrive and
\* the history panel purges the log.
UserTurnMsg == Msg(FALSE, <<>>, TRUE, <<"a">>, TRUE, 0, FALSE, FALSE)

LogMsgs == {UserTurnMsg, IntrMsg}

LogNext ==
  \/ Start(FALSE, MaxSessions)
  \/ \E s \in Sessions : MicGranted(s)
  \/ \E s \in Sessions : OnOpen(s)
  \/ \E s \in Sessions : Resolve(s)
  \/ \E s \in Sessions : OnError(s)
  \/ \E s \in Sessions : OnClose(s)
  \/ StopButton
  \/ \E s \in Sessions, m \in LogMsgs : OnMessage(s, m, 0)
  \/ ClearAll

LogSpec == Init /\ [][LogNext]_vars

\* the log p is the beginning of the log q
IsPrefix(p, q) == Len(p) <= Len(q) /\ SubSeq(q, 1, Len(p)) = p

\* C15: every step other than the purge keeps the Turns there were, in their
\* order, at the beginning of the log; every step that is neither the purge
\* nor a transport message leaves the log as it is.
C15_AppendOnly ==
  /\ [][last'.op # "clear" => IsPrefix(messages, messages')]_vars
  /\ [][last'.op \notin {"clear", "onmessage"} => messages' = messages]_vars
  /\ [][(last'.op = "onmessage" /\ last'.intr) => messages' = messages]_vars

\* a second start() with a Turn in the log
C15_Witness ==
  /\ last.op = "start"
  /\ last.sid = 2
  /\ messages # <<>>

\* C16: the state leaves `disconnected` only to `connecting` and only by a
\* start(); it becomes `connected` only from `connecting` and only by the
\* transport's `opened` event.
C16_Transitions ==
  /\ [][(sessionState = "disconnected" /\ sessionState' # "disconnected") =>
          sessionState' = "connecting" /\ last'.op = "start"]_vars
  /\ [][(sessionState # "connected" /\ sessionState' = "connected") =>
          sessionState = "connecting" /\ last'.op = "onopen"]_vars

\* C17: a greeting text is sent at most once on a session, exactly once when
\* the session was started with a greeting, has reported `opened` and its
\* connect promise has resolved, and never on a session started without one.
C17_GreetingOnce ==
  \A s \in Sessions :
    /\ textSent[s] <= 1
    /\ ~initialText[s] => textSent[s] = 0
    /\ (initialText[s] /\ processor[s] /\ promise[s] = "resolved") =>
          textSent[s] = 1
    /\ textSent[s] = 1 => processor[s]

\* the greeting of a second session sent, none sent on the first, started
\* without one
C17_Witness ==
  /\ last.op = "resolve"
  /\ last.sid = 2
  /\ initialText = <<FALSE, TRUE>>
  /\ textSent = <<0, 1>>
  /\ promise[1] = "resolved"

\* C18: a `closed` or `error` event of a session that stop() has closed,
\* delivered after a later start(), leaves the state, the error slot, the
\* handle, the stream and its tracks, the active-set and the clock as they
\* are, and closes no handle.
C18_StaleCallbacks ==
  [][( /\ last'.op \in {"onclose", "onerror"}
       /\ last'.sid < nSessions
       /\ conn[last'.sid] = "closing" ) =>
        UNCHANGED <<sessionState, error, activeSessionRef, streamRef,
                    trackLive, sourcesRef, nextStartTimeRef, closeCalls>>]_vars

\* Accumulators across sessions: the first session receives transcript deltas
\* and no turn boundary; every later session receives turn boundaries and
\* no delta.  Sessions are stopped and closed in between.
UserDeltaMsg == Msg(FALSE, <<>>, TRUE, <<"a">>, FALSE, 0, FALSE, FALSE)
ModelDeltaMsg == Msg(TRUE, <<"a">>, FALSE, <<>>, FALSE, 0, FALSE, FALSE)
TurnCompleteMsg == Msg(FALSE, <<>>, FALSE, <<>>, TRUE, 0, FALSE, FALSE)

LeakMsgs(s) ==
  IF s = 1 THEN {UserDeltaMsg, ModelDeltaMsg} ELSE {TurnCompleteMsg}

LeakNext ==
  \/ Start(FALSE, MaxSessions)
  \/ \E s \in Sessions : MicGranted(s)
  \/ \E s \in Sessions : OnOpen(s)
  \/ \E s \in Sessions : Resolve(s)
  \/ \E s \in Sessions : OnClose(s)
  \/ StopButton
  \/ \E s \in Sessions : \E m \in LeakMsgs(s) : OnMessage(s, m, 0)

LeakSpec == Init /\ [][LeakNext]_vars

\* C19: a Turn holds only deltas received in the session that emits it; with
\* the deltas all received in the first session, which has been closed, a
\* turn boundary of a later session emits no Turn.
C19_NoLeak ==
  [][( /\ last'.op = "onmessage"
       /\ last'.sid > 1
       /\ conn[1] = "closed" ) => messages' = messages]_vars

\* C20: the decode of a chunk that arrived before an interruption and
\* completes after the interruption was handled adds no source for that
\* chunk to the active-set.
C20_NoPlayAfterInterrupt ==
  [][\A d \in decoding :
       (~d.post /\ flushed /\ d \notin decoding') =>
          \A src \in sourcesRef' : src.id # d.id]_vars

\* a start() is in progress: it waits for the microphone or for its connect
\* promise
StartInProgress ==
  \E s \in Sessions : pc[s] = "awaitMic" \/ promise[s] = "pending"

\* C21: whenever the state is `disconnected` and no start() is in progress,
\* no session handle is stored, no microphone stream is held and no stream
\* has live tracks.
C21_NoResourceOutlivesStop ==
  (sessionState = "disconnected" /\ ~StartInProgress) =>
     /\ activeSessionRef = Null
     /\ streamRef = Null
     /\ \A s \in Sessions : ~trackLive[s]

====
